---- MODULE Spec2Model ----
(***************************************************************************)
(* ViewLinesWebgl: the reveal planner (_computeScrollTopToRevealRange,     *)
(* _computeMinimumScrolling, onRevealRangeRequest), the line width tracker *)
(* (_ensureMaxLineWidth, _updateLineWidths, onFlushed, onZonesChanged),    *)
(* the monospace check (_checkMonospaceFontAssumptions) and the two        *)
(* RunOnceScheduler tasks created by the constructor.                      *)
(*                                                                         *)
(* Vertical pixel quantities are JavaScript numbers.  They are kept here   *)
(* as integers counting 1/Unit of a pixel, so that the halves and fifths   *)
(* the planner computes (viewportHeight / 2, viewportHeight * 0.2,         *)
(* (boxStartY + boxEndY) / 2) are exact for inputs given in half pixels.   *)
(* Px(n) is n pixels; the sentinel -1 of the source is Px(-1).             *)
(***************************************************************************)
EXTENDS Integers, Sequences, FiniteSets, TLC

VARIABLES
    \* --- config (constructor, lines 360-364 and 383-384)
    _lineHeight,
    _horizontalScrollbarHeight,
    _cursorSurroundingLines,
    _cursorSurroundingLinesStyle,
    _stickyScrollEnabled,
    _maxNumberStickyLines,
    \* --- _visibleLines (the window) and viewModel.getLineCount()
    rendStartLineNumber,
    rendEndLineNumber,
    lineCount,
    \* --- width (line 296) and the width the host was last given
    _maxLineWidth,
    viewLayoutMaxLineWidth,
    \* --- the two RunOnceSchedulers (lines 297-298), by name: the time left until
    \*     the timeout fires (-1: not scheduled) and whether the runner is still set
    timeoutRemaining,
    runner,
    \* --- history of the schedulers, kept while a timeout is outstanding: the time
    \*     since the latest schedule(), the time since the first schedule() (up to
    \*     one step past the delay) and the number of schedule() calls
    sinceSchedule,
    sinceFirstTrigger,
    pendingTriggers,
    \* --- the call in progress, <<>> or one frame: of onRevealRangeRequest, of a
    \*     width operation, of a scheduler's onTimeout
    revealCall,
    widthCall,
    timerCall,
    \* --- the name of the latest width operation
    lastWidthOp

configVars == <<_lineHeight, _horizontalScrollbarHeight, _cursorSurroundingLines,
                _cursorSurroundingLinesStyle, _stickyScrollEnabled, _maxNumberStickyLines>>

windowVars == <<rendStartLineNumber, rendEndLineNumber, lineCount>>

widthVars == <<_maxLineWidth, viewLayoutMaxLineWidth, lastWidthOp>>

timerVars == <<timeoutRemaining, runner, sinceSchedule, sinceFirstTrigger, pendingTriggers>>

callVars == <<revealCall, widthCall, timerCall>>

vars == <<configVars, windowVars, widthVars, timerVars, callVars>>

Idle == revealCall = <<>> /\ widthCall = <<>> /\ timerCall = <<>>

----------------------------------------------------------------------------
\* Numbers

Unit == 40

Px(n) == n * Unit

MathMin(a, b) == IF a < b THEN a ELSE b

MathMax(a, b) == IF a > b THEN a ELSE b

MathAbs(a) == IF a < 0 THEN 0 - a ELSE a

\* x | 0 : truncation toward zero to a whole number of pixels.  The 32-bit wrap of
\* ToInt32 is the identity on every offset of this model (all are far below 2^31
\* pixels, and so is every integer TLC can represent)
ToInt32(x) == Px(IF x >= 0 THEN x \div Unit ELSE 0 - ((0 - x) \div Unit))

\* Math.ceil(x), a whole number of pixels
MathCeil(x) == Px(0 - ((0 - x) \div Unit))

----------------------------------------------------------------------------
\* Inputs of the reveal planner

MaxSelections == 2

LineHeightOptions == {20}

ScrollbarHeightOptions == {14}

SurroundingLinesOptions == {0, 3}

SurroundingLinesStyles == {"default", "all"}

StickyLineCountOptions == {5}

ViewportTops == {0, 1000}

ViewportHeights == {21, 45, 100, 500, 600}

\* viewLayout.getCurrentScrollTop(): at the future viewport's top, or a line below
\* the offset of line 61
CurrentScrollTops == {1000, 1220}

RevealLineCount == 120

VerticalRevealTypes ==
    {"Simple", "Center", "CenterIfOutsideViewport", "Top", "Bottom",
     "NearTop", "NearTopIfOutsideViewport"}

ScrollTypes == {"Smooth", "Immediate"}

Sources == {"mouse", "keyboard"}

LineRange(s, e) == [startLineNumber |-> s, endLineNumber |-> e]

\* range: <<>> is null, <<r>> is the range r
RevealRanges ==
    {<<>>, <<LineRange(1, 1)>>, <<LineRange(61, 61)>>, <<LineRange(101, 101)>>,
     <<LineRange(61, 101)>>}

RevealSelections == {LineRange(61, 62), LineRange(101, 101)}

\* selections: <<>> is null, <<list>> is the array list (possibly empty)
SelectionLists ==
    {<<>>} \cup
    { <<list>> : list \in UNION { [1..n -> RevealSelections] : n \in 0..MaxSelections } }

\* a viewport whose top and height are not whole pixels: {top 1000.5, height 45.5}
FractionalViewport == [top |-> Px(1000) + Unit \div 2, height |-> Px(45) + Unit \div 2]

\* the heights that come with the top 0, next to every height with the top 1000
HeightsAtTopZero == {100, 500}

Viewports ==
    { v \in { [top |-> Px(t), height |-> Px(h)] : t \in ViewportTops, h \in ViewportHeights } :
          v.top = 0 => v.height \in { Px(h) : h \in HeightsAtTopZero } }
    \cup {FractionalViewport}

RevealEvents ==
    [source : Sources, minimalReveal : BOOLEAN, range : RevealRanges,
     selections : SelectionLists, verticalType : VerticalRevealTypes,
     revealHorizontal : BOOLEAN, scrollType : ScrollTypes]

----------------------------------------------------------------------------
\* Host (viewLayout)

getVerticalOffsetForLineNumber(lineNumber) == (lineNumber - 1) * _lineHeight

getScrollHeight == lineCount * _lineHeight

validateScrollPosition(scrollTop, viewport) ==
    MathMax(0, MathMin(scrollTop, getScrollHeight - viewport.height))

----------------------------------------------------------------------------
\* Reveal planner

\* mutant of _computeMinimumScrolling: revealAtStart returns the bound as it came,
\* not the truncated one
_computeMinimumScrolling_untruncatedStart(viewportStart0, viewportEnd0, boxStart0, boxEnd0, revealAtStart, revealAtEnd) ==
    LET viewportStart == ToInt32(viewportStart0)
        viewportEnd == ToInt32(viewportEnd0)
        boxStart == ToInt32(boxStart0)
        boxEnd == ToInt32(boxEnd0)
        viewportLength == viewportEnd - viewportStart
        boxLength == boxEnd - boxStart
    IN  IF boxLength < viewportLength
        THEN IF revealAtStart THEN boxStart0
             ELSE IF revealAtEnd THEN MathMax(0, boxEnd - viewportLength)
             ELSE IF boxStart < viewportStart THEN boxStart
             ELSE IF boxEnd > viewportEnd THEN MathMax(0, boxEnd - viewportLength)
             ELSE viewportStart
        ELSE boxStart

\* mutant of _computeMinimumScrolling: revealAtEnd is not consulted
_computeMinimumScrolling_withoutRevealAtEnd(viewportStart0, viewportEnd0, boxStart0, boxEnd0, revealAtStart, revealAtEnd) ==
    LET viewportStart == ToInt32(viewportStart0)
        viewportEnd == ToInt32(viewportEnd0)
        boxStart == ToInt32(boxStart0)
        boxEnd == ToInt32(boxEnd0)
        viewportLength == viewportEnd - viewportStart
        boxLength == boxEnd - boxStart
    IN  IF boxLength < viewportLength
        THEN IF revealAtStart THEN boxStart
             ELSE IF boxStart < viewportStart THEN boxStart
             ELSE IF boxEnd > viewportEnd THEN MathMax(0, boxEnd - viewportLength)
             ELSE viewportStart
        ELSE boxStart

_computeMinimumScrolling(viewportStart0, viewportEnd0, boxStart0, boxEnd0, revealAtStart, revealAtEnd) ==
    LET viewportStart == ToInt32(viewportStart0)
        viewportEnd == ToInt32(viewportEnd0)
        boxStart == ToInt32(boxStart0)
        boxEnd == ToInt32(boxEnd0)
        viewportLength == viewportEnd - viewportStart
        boxLength == boxEnd - boxStart
    IN  IF boxLength < viewportLength
        THEN IF revealAtStart THEN boxStart
             ELSE IF revealAtEnd THEN MathMax(0, boxEnd - viewportLength)
             ELSE IF boxStart < viewportStart THEN boxStart
             ELSE IF boxEnd > viewportEnd THEN MathMax(0, boxEnd - viewportLength)
             ELSE viewportStart
        ELSE boxStart

HasSelections(selections) == selections # <<>> /\ Len(selections[1]) > 0

\* lines 775-779: the loop from selection i on, with the minimum found so far
RECURSIVE MinLineNumberFrom(_, _, _)
MinLineNumberFrom(list, i, minLineNumber) ==
    IF i > Len(list)
    THEN minLineNumber
    ELSE MinLineNumberFrom(list, i + 1, MathMin(minLineNumber, list[i].startLineNumber))

\* mutant of MinLineNumber: the loop over the other selections is lost
MinLineNumber_firstSelection(list) == list[1].startLineNumber

\* lines 773-779
MinLineNumber(list) == MinLineNumberFrom(list, 2, list[1].startLineNumber)

\* lines 775-779: the loop from selection i on, with the maximum found so far
RECURSIVE MaxLineNumberFrom(_, _, _)
MaxLineNumberFrom(list, i, maxLineNumber) ==
    IF i > Len(list)
    THEN maxLineNumber
    ELSE MaxLineNumberFrom(list, i + 1, MathMax(maxLineNumber, list[i].endLineNumber))

\* lines 774-779
MaxLineNumber(list) == MaxLineNumberFrom(list, 2, list[1].endLineNumber)

\* mutant of RevealBox: the `else return -1` branch is lost and a request without
\* range and selections reveals the first line
RevealBox_withoutAbort(range, selections) ==
    IF HasSelections(selections)
    THEN [valid |-> TRUE, boxIsSingleRange |-> FALSE,
          boxStartY |-> getVerticalOffsetForLineNumber(MinLineNumber(selections[1])),
          boxEndY |-> getVerticalOffsetForLineNumber(MaxLineNumber(selections[1])) + _lineHeight]
    ELSE IF range # <<>>
    THEN [valid |-> TRUE, boxIsSingleRange |-> TRUE,
          boxStartY |-> getVerticalOffsetForLineNumber(range[1].startLineNumber),
          boxEndY |-> getVerticalOffsetForLineNumber(range[1].endLineNumber) + _lineHeight]
    ELSE [valid |-> TRUE, boxIsSingleRange |-> TRUE,
          boxStartY |-> getVerticalOffsetForLineNumber(1),
          boxEndY |-> getVerticalOffsetForLineNumber(1) + _lineHeight]

\* mutant of RevealBox: a list of one selection is taken for a single range
RevealBox_singleSelectionAsRange(range, selections) ==
    IF HasSelections(selections)
    THEN [valid |-> TRUE, boxIsSingleRange |-> Len(selections[1]) = 1,
          boxStartY |-> getVerticalOffsetForLineNumber(MinLineNumber(selections[1])),
          boxEndY |-> getVerticalOffsetForLineNumber(MaxLineNumber(selections[1])) + _lineHeight]
    ELSE IF range # <<>>
    THEN [valid |-> TRUE, boxIsSingleRange |-> TRUE,
          boxStartY |-> getVerticalOffsetForLineNumber(range[1].startLineNumber),
          boxEndY |-> getVerticalOffsetForLineNumber(range[1].endLineNumber) + _lineHeight]
    ELSE [valid |-> FALSE, boxIsSingleRange |-> FALSE, boxStartY |-> 0, boxEndY |-> 0]

\* lines 772-789: the box before padding; valid is FALSE on the `return -1` path
RevealBox(range, selections) ==
    IF HasSelections(selections)
    THEN [valid |-> TRUE, boxIsSingleRange |-> FALSE,
          boxStartY |-> getVerticalOffsetForLineNumber(MinLineNumber(selections[1])),
          boxEndY |-> getVerticalOffsetForLineNumber(MaxLineNumber(selections[1])) + _lineHeight]
    ELSE IF range # <<>>
    THEN [valid |-> TRUE, boxIsSingleRange |-> TRUE,
          boxStartY |-> getVerticalOffsetForLineNumber(range[1].startLineNumber),
          boxEndY |-> getVerticalOffsetForLineNumber(range[1].endLineNumber) + _lineHeight]
    ELSE [valid |-> FALSE, boxIsSingleRange |-> FALSE, boxStartY |-> 0, boxEndY |-> 0]

\* mutant of shouldIgnoreScrollOff: the style is not consulted
shouldIgnoreScrollOff_anyStyle(source, minimalReveal) == source = "mouse" \/ minimalReveal

\* line 791
shouldIgnoreScrollOff(source, minimalReveal) ==
    (source = "mouse" \/ minimalReveal) /\ _cursorSurroundingLinesStyle = "default"

\* mutant of ContextHeight: the setting is not limited to half the viewport
ContextHeight_unlimited(viewportHeight) == _cursorSurroundingLines * _lineHeight

\* context * this._lineHeight, with context = Math.min((viewportHeight / this._lineHeight) / 2,
\* this._cursorSurroundingLines): the product is taken inside the minimum
ContextHeight(viewportHeight) ==
    MathMin(viewportHeight \div 2, _cursorSurroundingLines * _lineHeight)

\* lines 793-809
PaddingTop(viewportHeight, source, minimalReveal) ==
    IF ~shouldIgnoreScrollOff(source, minimalReveal)
    THEN IF _stickyScrollEnabled
         THEN MathMax(ContextHeight(viewportHeight), _maxNumberStickyLines * _lineHeight)
         ELSE ContextHeight(viewportHeight)
    ELSE IF ~minimalReveal THEN _lineHeight ELSE 0

\* mutant of PaddingBottom: minimalReveal does not select the scrollbar height
PaddingBottom_lineHeightOnly(viewportHeight, source, minimalReveal, verticalType) ==
    (IF ~shouldIgnoreScrollOff(source, minimalReveal)
     THEN MathMax(0, ContextHeight(viewportHeight) - _lineHeight)
     ELSE 0)
    + (IF verticalType \in {"Simple", "Bottom"} THEN _lineHeight ELSE 0)

\* lines 794, 803 and 810-813
PaddingBottom(viewportHeight, source, minimalReveal, verticalType) ==
    (IF ~shouldIgnoreScrollOff(source, minimalReveal)
     THEN MathMax(0, ContextHeight(viewportHeight) - _lineHeight)
     ELSE 0)
    + (IF verticalType \in {"Simple", "Bottom"}
       THEN (IF minimalReveal THEN _horizontalScrollbarHeight ELSE _lineHeight)
       ELSE 0)

\* lines 815-816: the box after padding
PaddedBox(viewport, source, minimalReveal, range, selections, verticalType) ==
    LET box == RevealBox(range, selections)
    IN  [box EXCEPT
            !.boxStartY = @ - PaddingTop(viewport.height, source, minimalReveal),
            !.boxEndY = @ + PaddingBottom(viewport.height, source, minimalReveal, verticalType)]

\* mutant of OverflowScrollTop: boxIsSingleRange is not consulted
OverflowScrollTop_alwaysBoxTop(box) == box.boxStartY

\* lines 819-825: the box is larger than the viewport
OverflowScrollTop(box) ==
    IF ~box.boxIsSingleRange THEN Px(-1) ELSE box.boxStartY

\* mutant of NearTopScrollTop: the already-visible test is lost
NearTopScrollTop_alwaysGap(viewport, box, verticalType) ==
    LET desiredGapAbove == MathMax(5 * _lineHeight, viewport.height \div 5)
        desiredScrollTop == box.boxStartY - desiredGapAbove
        minScrollTop == box.boxEndY - viewport.height
    IN  MathMax(minScrollTop, desiredScrollTop)

\* mutant of NearTopScrollTop: the gap is five lines, whatever the viewport's height
NearTopScrollTop_fiveLinesOnly(viewport, box, verticalType) ==
    IF verticalType = "NearTopIfOutsideViewport"
       /\ viewport.top <= box.boxStartY /\ box.boxEndY <= viewport.top + viewport.height
    THEN viewport.top
    ELSE MathMax(box.boxEndY - viewport.height, box.boxStartY - 5 * _lineHeight)

\* lines 826-838
NearTopScrollTop(viewport, box, verticalType) ==
    IF verticalType = "NearTopIfOutsideViewport"
       /\ viewport.top <= box.boxStartY /\ box.boxEndY <= viewport.top + viewport.height
    THEN viewport.top
    ELSE LET desiredGapAbove == MathMax(5 * _lineHeight, viewport.height \div 5)
             desiredScrollTop == box.boxStartY - desiredGapAbove
             minScrollTop == box.boxEndY - viewport.height
         IN  MathMax(minScrollTop, desiredScrollTop)

\* mutant of CenterScrollTop: the result is not held at 0
CenterScrollTop_withoutClamp(viewport, box, verticalType) ==
    IF verticalType = "CenterIfOutsideViewport"
       /\ viewport.top <= box.boxStartY /\ box.boxEndY <= viewport.top + viewport.height
    THEN viewport.top
    ELSE (box.boxStartY + box.boxEndY) \div 2 - viewport.height \div 2

\* lines 839-847
CenterScrollTop(viewport, box, verticalType) ==
    IF verticalType = "CenterIfOutsideViewport"
       /\ viewport.top <= box.boxStartY /\ box.boxEndY <= viewport.top + viewport.height
    THEN viewport.top
    ELSE LET boxMiddleY == (box.boxStartY + box.boxEndY) \div 2
         IN  MathMax(0, boxMiddleY - viewport.height \div 2)

\* lines 817-852: the policy dispatch on the padded box
PolicyScrollTop(viewport, box, verticalType) ==
    IF box.boxEndY - box.boxStartY > viewport.height
    THEN OverflowScrollTop(box)
    ELSE IF verticalType \in {"NearTop", "NearTopIfOutsideViewport"}
    THEN NearTopScrollTop(viewport, box, verticalType)
    ELSE IF verticalType \in {"Center", "CenterIfOutsideViewport"}
    THEN CenterScrollTop(viewport, box, verticalType)
    ELSE _computeMinimumScrolling(viewport.top, viewport.top + viewport.height,
                                  box.boxStartY, box.boxEndY,
                                  verticalType = "Top", verticalType = "Bottom")

_computeScrollTopToRevealRange(viewport, source, minimalReveal, range, selections, verticalType) ==
    LET box == PaddedBox(viewport, source, minimalReveal, range, selections, verticalType)
    IN  IF ~box.valid THEN Px(-1) ELSE PolicyScrollTop(viewport, box, verticalType)

\* mutant of RevealScrollLeft: e.revealHorizontal is not tested
RevealScrollLeft_alwaysHorizontal(e) ==
    IF e.range # <<>> /\ e.range[1].startLineNumber # e.range[1].endLineNumber
    THEN <<0>>
    ELSE <<>>

\* lines 475-490: the scrollLeft of the new scroll position, <<>> when it has none
RevealScrollLeft(e) ==
    IF e.revealHorizontal /\ e.range # <<>>
       /\ e.range[1].startLineNumber # e.range[1].endLineNumber
    THEN <<0>>
    ELSE <<>>

\* mutant of RevealScrollType: a delta of one line height is animated
RevealScrollType_strictlyLess(e, currentScrollTop, newScrollTop) ==
    IF MathAbs(currentScrollTop - newScrollTop) < _lineHeight THEN "Immediate" ELSE e.scrollType

\* lines 492-493
RevealScrollType(e, currentScrollTop, newScrollTop) ==
    IF MathAbs(currentScrollTop - newScrollTop) <= _lineHeight THEN "Immediate" ELSE e.scrollType

\* mutant of IsAbortMarker: the marker is not tested
IsAbortMarker_never(desiredScrollTop) == FALSE

\* line 467: the marker to abort the reveal range request
IsAbortMarker(desiredScrollTop) == desiredScrollTop = Px(-1)

\* The frame of one call: its inputs (e, the host's future viewport and current
\* scroll top), the box before and after padding (lines 772-789 and 815-816), the
\* computed desiredScrollTop, the host calls it made and its result
RevealFrame(e, viewport, currentScrollTop) ==
    LET desiredScrollTop ==
            _computeScrollTopToRevealRange(viewport, e.source, e.minimalReveal, e.range,
                                           e.selections, e.verticalType)
        newScrollTop == validateScrollPosition(desiredScrollTop, viewport)
    IN  IF IsAbortMarker(desiredScrollTop)
        THEN [e |-> e, viewport |-> viewport, currentScrollTop |-> currentScrollTop,
              box |-> RevealBox(e.range, e.selections),
              paddedBox |-> PaddedBox(viewport, e.source, e.minimalReveal, e.range,
                                      e.selections, e.verticalType),
              desiredScrollTop |-> desiredScrollTop,
              validateScrollPositionCalls |-> <<>>,
              setScrollPositionCalls |-> <<>>,
              result |-> FALSE]
        ELSE [e |-> e, viewport |-> viewport, currentScrollTop |-> currentScrollTop,
              box |-> RevealBox(e.range, e.selections),
              paddedBox |-> PaddedBox(viewport, e.source, e.minimalReveal, e.range,
                                      e.selections, e.verticalType),
              desiredScrollTop |-> desiredScrollTop,
              validateScrollPositionCalls |-> <<desiredScrollTop>>,
              setScrollPositionCalls |->
                  << [scrollTop |-> newScrollTop,
                      scrollLeft |-> RevealScrollLeft(e),
                      scrollType |-> RevealScrollType(e, currentScrollTop, newScrollTop)] >>,
              result |-> TRUE]

onRevealRangeRequest(e, viewport, currentScrollTop) ==
    /\ revealCall' = <<RevealFrame(e, viewport, currentScrollTop)>>
    /\ UNCHANGED <<configVars, windowVars, widthVars, timerVars, widthCall, timerCall>>

----------------------------------------------------------------------------
\* Line width tracker

MaxLineCount == 2

HalfPx(n) == n * (Unit \div 2)

LineWidthOptions == {HalfPx(1), HalfPx(3), Px(842)}

WindowLength == rendEndLineNumber - rendStartLineNumber + 1

\* what the lines of the window answer to getWidth() and getWidthIsFast() during
\* one pass, in window order
WindowLines == [1..WindowLength -> [width : LineWidthOptions, widthIsFast : BOOLEAN]]

\* mutant of _ensureMaxLineWidth: the width is stored without the comparison
_ensureMaxLineWidth_assignsAlways(maxLineWidth, lineWidth) ==
    [maxLineWidth |-> MathCeil(lineWidth), setMaxLineWidthCalls |-> <<MathCeil(lineWidth)>>]

\* mutant of _ensureMaxLineWidth: the host is notified on every call
_ensureMaxLineWidth_notifiesAlways(maxLineWidth, lineWidth) ==
    [maxLineWidth |-> MathMax(maxLineWidth, MathCeil(lineWidth)),
     setMaxLineWidthCalls |-> <<MathMax(maxLineWidth, MathCeil(lineWidth))>>]

\* lines 756-762, on the value of _maxLineWidth at the call: the new value and
\* the calls of viewLayout.setMaxLineWidth
_ensureMaxLineWidth(maxLineWidth, lineWidth) ==
    LET iLineWidth == MathCeil(lineWidth)
    IN  IF maxLineWidth < iLineWidth
        THEN [maxLineWidth |-> iLineWidth, setMaxLineWidthCalls |-> <<iLineWidth>>]
        ELSE [maxLineWidth |-> maxLineWidth, setMaxLineWidthCalls |-> <<>>]

\* line 689
CannotComputeFast(fast, line) == fast /\ ~line.widthIsFast

\* lines 684-696: localMaxLineWidth after the first i lines of the window
RECURSIVE LocalMaxLineWidth(_, _, _)
LocalMaxLineWidth(fast, lines, i) ==
    IF i = 0 THEN Px(1)
    ELSE IF CannotComputeFast(fast, lines[i]) THEN LocalMaxLineWidth(fast, lines, i - 1)
    ELSE MathMax(LocalMaxLineWidth(fast, lines, i - 1), lines[i].width)

\* mutant of AllWidthsComputed: a skipped line does not clear the flag
AllWidthsComputed_always(fast, lines) == TRUE

\* lines 685-693
AllWidthsComputed(fast, lines) ==
    \A i \in 1..Len(lines) : ~CannotComputeFast(fast, lines[i])

\* mutant of KnowsAllLines: the pass never resets the maximum
KnowsAllLines_never(fast, lines) == FALSE

\* line 698
KnowsAllLines(fast, lines) ==
    /\ AllWidthsComputed(fast, lines)
    /\ rendStartLineNumber = 1
    /\ rendEndLineNumber = lineCount

\* lines 680-706: the frame of one pass
_updateLineWidths(op, fast, lines) ==
    LET localMaxLineWidth == LocalMaxLineWidth(fast, lines, Len(lines))
        maxAtEnsure == IF KnowsAllLines(fast, lines) THEN 0 ELSE _maxLineWidth
        ensured == _ensureMaxLineWidth(maxAtEnsure, localMaxLineWidth)
    IN  [op |-> op, previousOp |-> lastWidthOp, fast |-> fast, lines |-> lines,
         rendStartLineNumber |-> rendStartLineNumber,
         rendEndLineNumber |-> rendEndLineNumber,
         lineCount |-> lineCount,
         maxBefore |-> _maxLineWidth,
         maxAtEnsure |-> maxAtEnsure,
         localMaxLineWidth |-> localMaxLineWidth,
         maxLineWidth |-> ensured.maxLineWidth,
         setMaxLineWidthCalls |-> ensured.setMaxLineWidthCalls,
         result |-> AllWidthsComputed(fast, lines)]

\* the host keeps the last width it was given
HostAfter(calls) == IF calls = <<>> THEN viewLayoutMaxLineWidth ELSE calls[Len(calls)]

UpdatePass(op, fast) ==
    \E lines \in WindowLines :
        LET f == _updateLineWidths(op, fast, lines)
        IN  /\ _maxLineWidth' = f.maxLineWidth
            /\ viewLayoutMaxLineWidth' = HostAfter(f.setMaxLineWidthCalls)
            /\ lastWidthOp' = op
            /\ widthCall' = <<f>>

\* lines 672-674
updateLineWidths ==
    /\ Idle
    /\ UpdatePass("updateLineWidths", FALSE)
    /\ UNCHANGED <<configVars, windowVars, timerVars, revealCall, timerCall>>

\* lines 676-678, the runner of _asyncUpdateLineWidths
_updateLineWidthsSlow ==
    /\ Idle
    /\ UpdatePass("_updateLineWidthsSlow", FALSE)
    /\ UNCHANGED <<configVars, windowVars, timerVars, revealCall, timerCall>>

\* lines 680-706 with fast = true. updateLineWidths and _updateLineWidthsSlow pass
\* false and drop the result; this is the method applied to its other input
_updateLineWidthsFast ==
    /\ Idle
    /\ UpdatePass("_updateLineWidths", TRUE)
    /\ UNCHANGED <<configVars, windowVars, timerVars, revealCall, timerCall>>

\* lines 448-452; _visibleLines.onFlushed empties the window, and the view model
\* holds the new document
onFlushed ==
    /\ Idle
    /\ rendStartLineNumber' = 1
    /\ rendEndLineNumber' = 0
    /\ lineCount' \in 1..MaxLineCount
    /\ _maxLineWidth' = 0
    /\ lastWidthOp' = "onFlushed"
    /\ widthCall' = << [op |-> "onFlushed", previousOp |-> lastWidthOp,
                        maxBefore |-> _maxLineWidth, setMaxLineWidthCalls |-> <<>>] >>
    /\ UNCHANGED <<configVars, viewLayoutMaxLineWidth, timerVars, revealCall, timerCall>>

\* mutant of onZonesChanged: the width is not sent to the host
onZonesChanged_withoutSend ==
    /\ Idle
    /\ lastWidthOp' = "onZonesChanged"
    /\ widthCall' = << [op |-> "onZonesChanged", previousOp |-> lastWidthOp,
                        maxBefore |-> _maxLineWidth,
                        setMaxLineWidthCalls |-> <<_maxLineWidth>>] >>
    /\ UNCHANGED <<configVars, windowVars, _maxLineWidth, viewLayoutMaxLineWidth, timerVars,
                   revealCall, timerCall>>

\* lines 505-508
onZonesChanged ==
    /\ Idle
    /\ viewLayoutMaxLineWidth' = _maxLineWidth
    /\ lastWidthOp' = "onZonesChanged"
    /\ widthCall' = << [op |-> "onZonesChanged", previousOp |-> lastWidthOp,
                        maxBefore |-> _maxLineWidth,
                        setMaxLineWidthCalls |-> <<_maxLineWidth>>] >>
    /\ UNCHANGED <<configVars, windowVars, _maxLineWidth, timerVars, revealCall, timerCall>>

\* what getWidth() of a rendered line may answer to getLineWidth: the widths of the
\* passes, and 0
MeasuredWidths == LineWidthOptions \cup {0}

\* mutant of GetLineWidth: the test against rendEndLineNumber is lost
GetLineWidth_withoutUpperTest(lineNumber, width) ==
    IF lineNumber < rendStartLineNumber
    THEN [op |-> "getLineWidth", lineNumber |-> lineNumber,
          rendStartLineNumber |-> rendStartLineNumber,
          rendEndLineNumber |-> rendEndLineNumber,
          getWidthCalls |-> <<>>, result |-> Px(-1)]
    ELSE [op |-> "getLineWidth", lineNumber |-> lineNumber,
          rendStartLineNumber |-> rendStartLineNumber,
          rendEndLineNumber |-> rendEndLineNumber,
          getWidthCalls |-> << [lineNumber |-> lineNumber, width |-> width] >>,
          result |-> width]

\* lines 580-589: the frame of one call; width is what getWidth() of the line
\* answers if it is asked
GetLineWidth(lineNumber, width) ==
    IF lineNumber < rendStartLineNumber \/ lineNumber > rendEndLineNumber
    THEN [op |-> "getLineWidth", lineNumber |-> lineNumber,
          rendStartLineNumber |-> rendStartLineNumber,
          rendEndLineNumber |-> rendEndLineNumber,
          getWidthCalls |-> <<>>, result |-> Px(-1)]
    ELSE [op |-> "getLineWidth", lineNumber |-> lineNumber,
          rendStartLineNumber |-> rendStartLineNumber,
          rendEndLineNumber |-> rendEndLineNumber,
          getWidthCalls |-> << [lineNumber |-> lineNumber, width |-> width] >>,
          result |-> width]

\* lines 580-589, for a line number of the document or next to it
getLineWidth ==
    /\ Idle
    /\ \E lineNumber \in 0..(lineCount + 1), width \in MeasuredWidths :
           widthCall' = <<GetLineWidth(lineNumber, width)>>
    /\ UNCHANGED <<configVars, windowVars, widthVars, timerVars, revealCall, timerCall>>

\* the window after the visible lines were rendered, inserted, deleted or changed
WindowChanged ==
    /\ Idle
    /\ lineCount' \in 1..MaxLineCount
    /\ rendStartLineNumber' \in 1..lineCount'
    /\ rendEndLineNumber' \in (rendStartLineNumber' - 1)..lineCount'
    /\ <<rendStartLineNumber', rendEndLineNumber', lineCount'>> # windowVars
    /\ UNCHANGED <<configVars, widthVars, timerVars, callVars>>

----------------------------------------------------------------------------
\* Monospace check

\* what the lines of the window answer to needsMonospaceFontCheck() and getWidth()
MonospaceLines ==
    [1..WindowLength -> [width : LineWidthOptions, needsMonospaceFontCheck : BOOLEAN]]

\* mutant of LongestLine: the first line that needs the check is selected
LongestLine_first(lines) ==
    LET dirty == { i \in 1..Len(lines) : lines[i].needsMonospaceFontCheck }
    IN  IF dirty = {} THEN 0 ELSE CHOOSE i \in dirty : \A j \in dirty : i <= j

\* lines 712-725: the index in the window of the longest line that needs the check,
\* 0 when no line needs it (longestLineNumber = -1); of equally long lines the
\* first wins, as lineWidth > longestWidth is strict
LongestLine(lines) ==
    LET dirty == { i \in 1..Len(lines) : lines[i].needsMonospaceFontCheck }
    IN  IF dirty = {} THEN 0
        ELSE CHOOSE i \in dirty :
                 /\ \A j \in dirty : lines[j].width <= lines[i].width
                 /\ \A j \in dirty : j < i => lines[j].width < lines[i].width

\* lines 731-736: the line numbers that receive onMonospaceAssumptionsInvalidated
InvalidatedLines(longest, valid) ==
    IF longest # 0 /\ ~valid THEN rendStartLineNumber..rendEndLineNumber ELSE {}

\* lines 708-737; valid is the answer of monospaceAssumptionsAreValid()
CheckPass ==
    \E lines \in MonospaceLines :
        LET longest == LongestLine(lines)
        IN  \E valid \in (IF longest = 0 THEN {TRUE} ELSE BOOLEAN) :
                widthCall' =
                    << [op |-> "_checkMonospaceFontAssumptions", lines |-> lines,
                        rendStartLineNumber |-> rendStartLineNumber,
                        rendEndLineNumber |-> rendEndLineNumber,
                        validated |->
                            IF longest = 0 THEN <<>>
                            ELSE << [lineNumber |-> rendStartLineNumber + longest - 1,
                                     valid |-> valid] >>,
                        invalidated |-> InvalidatedLines(longest, valid)] >>

_checkMonospaceFontAssumptions ==
    /\ Idle
    /\ CheckPass
    /\ UNCHANGED <<configVars, windowVars, widthVars, timerVars, revealCall, timerCall>>

----------------------------------------------------------------------------
\* The two debounced tasks

Schedulers == {"_asyncUpdateLineWidths", "_asyncCheckMonospaceFontAssumptions"}

MaxTriggers == 3

\* mutant of SchedulerDelay: the two delays are exchanged
SchedulerDelay_exchanged(s) == IF s = "_asyncUpdateLineWidths" THEN 2000 ELSE 200

\* lines 373-378: the delay of each scheduler, in milliseconds
SchedulerDelay(s) == IF s = "_asyncUpdateLineWidths" THEN 200 ELSE 2000

\* time advances in steps of half the shorter delay
TimeStep == SchedulerDelay("_asyncUpdateLineWidths") \div 2

IsScheduled(s) == timeoutRemaining[s] # -1

\* RunOnceScheduler.schedule(): cancel(), then setTimeout(onTimeout, delay); the
\* time left until the new timeout fires
ScheduledTimeout(s) == SchedulerDelay(s)

schedule(s) ==
    /\ Idle
    /\ pendingTriggers[s] < MaxTriggers
    /\ timeoutRemaining' = [timeoutRemaining EXCEPT ![s] = ScheduledTimeout(s)]
    /\ sinceSchedule' = [sinceSchedule EXCEPT ![s] = 0]
    /\ sinceFirstTrigger' =
           [sinceFirstTrigger EXCEPT ![s] = IF pendingTriggers[s] = 0 THEN 0 ELSE @]
    /\ pendingTriggers' = [pendingTriggers EXCEPT ![s] = @ + 1]
    /\ UNCHANGED <<configVars, windowVars, widthVars, runner, callVars>>

\* time passes; a timeout that is due fires before time passes on
Tick ==
    /\ Idle
    /\ \E s \in Schedulers : IsScheduled(s)
    /\ \A s \in Schedulers : IsScheduled(s) => timeoutRemaining[s] >= TimeStep
    /\ timeoutRemaining' =
           [s \in Schedulers |->
               IF IsScheduled(s) THEN timeoutRemaining[s] - TimeStep ELSE -1]
    /\ sinceSchedule' =
           [s \in Schedulers |->
               IF IsScheduled(s) THEN sinceSchedule[s] + TimeStep ELSE sinceSchedule[s]]
    /\ sinceFirstTrigger' =
           [s \in Schedulers |->
               IF IsScheduled(s)
               THEN MathMin(sinceFirstTrigger[s] + TimeStep, SchedulerDelay(s) + TimeStep)
               ELSE sinceFirstTrigger[s]]
    /\ UNCHANGED <<configVars, windowVars, widthVars, runner, pendingTriggers, callVars>>

\* lines 373-378: the runner of each scheduler
Runner(s) ==
    IF s = "_asyncUpdateLineWidths"
    THEN UpdatePass("_updateLineWidthsSlow", FALSE)
    ELSE CheckPass /\ UNCHANGED widthVars

\* RunOnceScheduler.onTimeout(): the token is cleared and the runner, if it is
\* still set, runs
onTimeout(s) ==
    /\ Idle
    /\ timeoutRemaining[s] = 0
    /\ timeoutRemaining' = [timeoutRemaining EXCEPT ![s] = -1]
    /\ pendingTriggers' = [pendingTriggers EXCEPT ![s] = 0]
    /\ timerCall' = << [op |-> "onTimeout", scheduler |-> s, ran |-> runner[s],
                        after |-> sinceSchedule[s],
                        afterFirst |-> sinceFirstTrigger[s],
                        triggers |-> pendingTriggers[s]] >>
    /\ sinceSchedule' = [sinceSchedule EXCEPT ![s] = 0]
    /\ sinceFirstTrigger' = [sinceFirstTrigger EXCEPT ![s] = 0]
    /\ IF runner[s] THEN Runner(s) ELSE UNCHANGED <<widthVars, widthCall>>
    /\ UNCHANGED <<configVars, windowVars, runner, revealCall>>

\* RunOnceScheduler.dispose() of each scheduler of the set: cancel(), and the
\* runner is dropped; the frame records the timeouts that were outstanding
DisposeSchedulers(disposed) ==
    /\ timeoutRemaining' = [s \in Schedulers |-> IF s \in disposed THEN -1 ELSE timeoutRemaining[s]]
    /\ runner' = [s \in Schedulers |-> IF s \in disposed THEN FALSE ELSE runner[s]]
    /\ sinceSchedule' = [s \in Schedulers |-> IF s \in disposed THEN 0 ELSE sinceSchedule[s]]
    /\ sinceFirstTrigger' =
           [s \in Schedulers |-> IF s \in disposed THEN 0 ELSE sinceFirstTrigger[s]]
    /\ pendingTriggers' = [s \in Schedulers |-> IF s \in disposed THEN 0 ELSE pendingTriggers[s]]
    /\ timerCall' = << [op |-> "dispose",
                        outstanding |-> { s \in Schedulers : IsScheduled(s) }] >>

\* mutant of dispose: _asyncCheckMonospaceFontAssumptions.dispose() is forgotten
dispose_firstSchedulerOnly ==
    /\ Idle
    /\ \E s \in Schedulers : runner[s] \/ IsScheduled(s)
    /\ DisposeSchedulers({"_asyncUpdateLineWidths"})
    /\ UNCHANGED <<configVars, windowVars, widthVars, revealCall, widthCall>>

\* lines 387-391
dispose ==
    /\ Idle
    /\ \E s \in Schedulers : runner[s] \/ IsScheduled(s)
    /\ DisposeSchedulers(Schedulers)
    /\ UNCHANGED <<configVars, windowVars, widthVars, revealCall, widthCall>>

----------------------------------------------------------------------------
\* Specifications

\* the handler has returned to the event dispatcher
Return ==
    /\ ~Idle
    /\ revealCall' = <<>>
    /\ widthCall' = <<>>
    /\ timerCall' = <<>>
    /\ UNCHANGED <<configVars, windowVars, widthVars, timerVars>>

ConfigInit ==
    /\ _lineHeight \in { Px(h) : h \in LineHeightOptions }
    /\ _horizontalScrollbarHeight \in { Px(h) : h \in ScrollbarHeightOptions }
    /\ _cursorSurroundingLines \in SurroundingLinesOptions
    /\ _cursorSurroundingLinesStyle \in SurroundingLinesStyles
    /\ _stickyScrollEnabled \in BOOLEAN
    /\ _maxNumberStickyLines \in StickyLineCountOptions

\* the editor's default options
DefaultConfig ==
    /\ _lineHeight = Px(20)
    /\ _horizontalScrollbarHeight = Px(14)
    /\ _cursorSurroundingLines = 0
    /\ _cursorSurroundingLinesStyle = "default"
    /\ _stickyScrollEnabled = FALSE
    /\ _maxNumberStickyLines = 5

\* lines 306-385: no line is rendered yet, no width is known, nothing is scheduled
Constructed ==
    /\ rendStartLineNumber = 1
    /\ rendEndLineNumber = 0
    /\ _maxLineWidth = 0
    /\ viewLayoutMaxLineWidth = 0
    /\ lastWidthOp = "constructor"
    /\ timeoutRemaining = [s \in Schedulers |-> -1]
    /\ runner = [s \in Schedulers |-> TRUE]
    /\ sinceSchedule = [s \in Schedulers |-> 0]
    /\ sinceFirstTrigger = [s \in Schedulers |-> 0]
    /\ pendingTriggers = [s \in Schedulers |-> 0]
    /\ revealCall = <<>>
    /\ widthCall = <<>>
    /\ timerCall = <<>>

RevealInit == ConfigInit /\ Constructed /\ lineCount = RevealLineCount

\* the dispatcher delivers one event at a time; the host supplies its future
\* viewport and its current scroll top
RevealRequest ==
    /\ Idle
    /\ \E e \in RevealEvents, viewport \in Viewports, t \in CurrentScrollTops :
           onRevealRangeRequest(e, viewport, Px(t))

RevealNext == RevealRequest \/ Return

RevealSpec == RevealInit /\ [][RevealNext]_vars

WidthInit == DefaultConfig /\ Constructed /\ lineCount \in 1..MaxLineCount

WidthNext ==
    \/ updateLineWidths
    \/ _updateLineWidthsSlow
    \/ _checkMonospaceFontAssumptions
    \/ onFlushed
    \/ onZonesChanged
    \/ getLineWidth
    \/ WindowChanged
    \/ Return

WidthSpec == WidthInit /\ [][WidthNext]_vars

\* the width operations, and _updateLineWidths on fast = true
FastNext == WidthNext \/ _updateLineWidthsFast

FastSpec == WidthInit /\ [][FastNext]_vars

TimerNext ==
    \/ \E s \in Schedulers : schedule(s)
    \/ Tick
    \/ \E s \in Schedulers : onTimeout(s)
    \/ dispose
    \/ Return

TimerSpec == WidthInit /\ [][TimerNext]_vars

----------------------------------------------------------------------------
\* Claims about the reveal planner (RevealSpec)

NoBox(e) == e.range = <<>> /\ (e.selections = <<>> \/ e.selections = << <<>> >>)

FromSelections(e) == e.selections # <<>> /\ e.selections # << <<>> >>

FromRangeOnly(e) == e.range # <<>> /\ ~FromSelections(e)

FramePaddedBox(f) ==
    PaddedBox(f.viewport, f.e.source, f.e.minimalReveal, f.e.range, f.e.selections,
              f.e.verticalType)

BoxOverflowsViewport(f) ==
    ~NoBox(f.e) /\ FramePaddedBox(f).boxEndY - FramePaddedBox(f).boxStartY > f.viewport.height

BoxInsideViewport(f) ==
    /\ ~NoBox(f.e)
    /\ f.viewport.top <= FramePaddedBox(f).boxStartY
    /\ FramePaddedBox(f).boxEndY <= f.viewport.top + f.viewport.height

\* C1: a request whose range is null and whose selections is null or an empty list
\* computes -1, whatever the viewport, source, minimalReveal and verticalType are
C1_NoBoxReturnsMinusOne ==
    \A i \in 1..Len(revealCall) :
        NoBox(revealCall[i].e) => revealCall[i].desiredScrollTop = Px(-1)

C1_Witness ==
    \E i \in 1..Len(revealCall) :
        /\ revealCall[i].e.range = <<>>
        /\ revealCall[i].e.selections = << <<>> >>
        /\ revealCall[i].e.verticalType = "Top"
        /\ revealCall[i].e.source = "mouse"
        /\ revealCall[i].viewport = [top |-> Px(1000), height |-> Px(500)]
        /\ revealCall[i].desiredScrollTop = Px(-1)

\* C2: when the padded box is higher than the viewport, a box derived from two or
\* more selections computes -1 and a box derived from a single range computes the
\* padded box's top, for every verticalType
C2_OverflowingBox ==
    \A i \in 1..Len(revealCall) :
        LET f == revealCall[i] IN
        BoxOverflowsViewport(f) =>
            /\ (FromSelections(f.e) /\ Len(f.e.selections[1]) >= 2)
                   => f.desiredScrollTop = Px(-1)
            /\ FromRangeOnly(f.e) => f.desiredScrollTop = FramePaddedBox(f).boxStartY

C2_Witness ==
    \E i \in 1..Len(revealCall) :
        LET f == revealCall[i] IN
        /\ BoxOverflowsViewport(f)
        /\ FromRangeOnly(f.e)
        /\ f.e.range = <<LineRange(61, 101)>>
        /\ f.e.verticalType = "NearTop"
        /\ f.viewport = [top |-> 0, height |-> Px(500)]
        /\ f.desiredScrollTop = FramePaddedBox(f).boxStartY
        /\ f.desiredScrollTop # Px(-1)

\* C3: for CenterIfOutsideViewport and NearTopIfOutsideViewport, a padded box that
\* lies inside the viewport computes the current viewport top
C3_VisibleBoxDoesNotMove ==
    \A i \in 1..Len(revealCall) :
        LET f == revealCall[i] IN
        (f.e.verticalType \in {"CenterIfOutsideViewport", "NearTopIfOutsideViewport"}
         /\ BoxInsideViewport(f))
            => f.desiredScrollTop = f.viewport.top

\* viewport {top 1000, height 500}, box 1200-1220, NearTopIfOutsideViewport,
\* minimalReveal: 1000
C3_Witness ==
    \E i \in 1..Len(revealCall) :
        LET f == revealCall[i] IN
        /\ f.viewport = [top |-> Px(1000), height |-> Px(500)]
        /\ f.e.range = <<LineRange(61, 61)>>
        /\ f.e.selections = <<>>
        /\ f.e.verticalType = "NearTopIfOutsideViewport"
        /\ f.e.minimalReveal
        /\ FramePaddedBox(f).boxStartY = Px(1200)
        /\ FramePaddedBox(f).boxEndY = Px(1220)
        /\ f.desiredScrollTop = Px(1000)

AbortCase(f) == NoBox(f.e) \/ (FromSelections(f.e) /\ BoxOverflowsViewport(f))

\* C7: outside the abort cases the computed scroll top is a valid offset: it is
\* >= 0, and in particular it is not -1
C7_OnlyAbortCasesAreNegative ==
    \A i \in 1..Len(revealCall) :
        ~AbortCase(revealCall[i]) => revealCall[i].desiredScrollTop >= 0

\* C8: when the computed scroll top is -1 the handler returns false and calls
\* neither validateScrollPosition nor setScrollPosition
C8_AbortLeavesScrollPosition ==
    \A i \in 1..Len(revealCall) :
        revealCall[i].desiredScrollTop = Px(-1) =>
            /\ revealCall[i].result = FALSE
            /\ revealCall[i].validateScrollPositionCalls = <<>>
            /\ revealCall[i].setScrollPositionCalls = <<>>

C8_Witness ==
    \E i \in 1..Len(revealCall) :
        /\ revealCall[i].desiredScrollTop = Px(-1)
        /\ revealCall[i].e.selections = << <<LineRange(61, 62), LineRange(101, 101)>> >>
        /\ revealCall[i].e.revealHorizontal
        /\ revealCall[i].result = FALSE
        /\ revealCall[i].setScrollPositionCalls = <<>>

----------------------------------------------------------------------------
\* Claims about the line width tracker (WidthSpec)

UpdateOps == {"updateLineWidths", "_updateLineWidthsSlow"}

IsUpdateFrame(f) == f.op \in UpdateOps

FullWindowPass(f) ==
    /\ f.rendStartLineNumber = 1
    /\ f.rendEndLineNumber = f.lineCount
    /\ f.result

\* the smallest whole number of pixels that is not less than w
CeilPx(w) == CHOOSE c \in { Px(n) : n \in 0..843 } : c >= w /\ c - Unit < w

\* the true maximum of the widths of a non-empty window
TrueMaxWidth(lines) ==
    CHOOSE w \in { lines[i].width : i \in 1..Len(lines) } :
        \A i \in 1..Len(lines) : lines[i].width <= w

C4_Step ==
    /\ _maxLineWidth' < _maxLineWidth =>
           /\ widthCall' # <<>>
           /\ \/ widthCall'[1].op = "onFlushed"
              \/ IsUpdateFrame(widthCall'[1]) /\ FullWindowPass(widthCall'[1])
    /\ (widthCall' # <<>> /\ widthCall'[1].op = "onFlushed") => _maxLineWidth' = 0
    /\ (widthCall' # <<>> /\ IsUpdateFrame(widthCall'[1])) =>
           /\ widthCall'[1].maxLineWidth >= widthCall'[1].maxAtEnsure
           /\ _maxLineWidth' = widthCall'[1].maxLineWidth

\* C4: no call of _ensureMaxLineWidth lowers _maxLineWidth; a step lowers it only if
\* it is onFlushed or a pass over the whole document, and right after onFlushed it
\* is 0
C4_MaxLineWidthDropsOnlyAtFlushOrFullPass == [][C4_Step]_vars

\* a pass over a part of the document whose lines are narrower than the maximum
C4_Witness ==
    \E i \in 1..Len(widthCall) :
        LET f == widthCall[i] IN
        /\ IsUpdateFrame(f)
        /\ ~FullWindowPass(f)
        /\ f.lines # <<>>
        /\ CeilPx(f.localMaxLineWidth) < f.maxBefore
        /\ _maxLineWidth = f.maxBefore

\* C6: right after onFlushed _maxLineWidth is 0; a pass over the whole document,
\* right after the flush or after other passes, over lines whose true maximum width
\* is W >= 1, leaves _maxLineWidth = ceil(W) and calls setMaxLineWidth exactly once,
\* with ceil(W)
C6_FullPassAfterFlush ==
    \A i \in 1..Len(widthCall) :
        LET f == widthCall[i] IN
        /\ f.op = "onFlushed" => _maxLineWidth = 0
        /\ (IsUpdateFrame(f) /\ FullWindowPass(f)
            /\ f.lines # <<>> /\ TrueMaxWidth(f.lines) >= Px(1))
               => /\ f.previousOp = "onFlushed" => f.maxBefore = 0
                  /\ _maxLineWidth = CeilPx(TrueMaxWidth(f.lines))
                  /\ f.setMaxLineWidthCalls = <<CeilPx(TrueMaxWidth(f.lines))>>
                  /\ viewLayoutMaxLineWidth = CeilPx(TrueMaxWidth(f.lines))

\* W = 842: 842 and one notification
C6_Witness ==
    \E i \in 1..Len(widthCall) :
        LET f == widthCall[i] IN
        /\ f.op = "updateLineWidths"
        /\ f.previousOp = "onFlushed"
        /\ FullWindowPass(f)
        /\ Len(f.lines) = 2
        /\ TrueMaxWidth(f.lines) = Px(842)
        /\ _maxLineWidth = Px(842)
        /\ f.setMaxLineWidthCalls = <<Px(842)>>

\* C9: a call _ensureMaxLineWidth(w) leaves _maxLineWidth = max(previous, ceil(w)),
\* and calls setMaxLineWidth, with the new value, if and only if the value grew
C9_EnsureMaxLineWidth ==
    \A i \in 1..Len(widthCall) :
        LET f == widthCall[i] IN
        IsUpdateFrame(f) =>
            /\ _maxLineWidth = MathMax(f.maxAtEnsure, CeilPx(f.localMaxLineWidth))
            /\ f.setMaxLineWidthCalls =
                   IF _maxLineWidth > f.maxAtEnsure THEN <<_maxLineWidth>> ELSE <<>>
            /\ CeilPx(f.localMaxLineWidth) <= f.maxAtEnsure =>
                   /\ _maxLineWidth = f.maxAtEnsure
                   /\ f.setMaxLineWidthCalls = <<>>

\* w = 1.5 on a tracked width of 2: nothing changes and the host is not called
C9_Witness ==
    \E i \in 1..Len(widthCall) :
        LET f == widthCall[i] IN
        /\ IsUpdateFrame(f)
        /\ f.localMaxLineWidth = HalfPx(3)
        /\ f.maxAtEnsure = Px(2)
        /\ _maxLineWidth = Px(2)
        /\ f.setMaxLineWidthCalls = <<>>

----------------------------------------------------------------------------
\* Claims about the monospace check (WidthSpec)

IsCheckFrame(f) == f.op = "_checkMonospaceFontAssumptions"

DirtyLines(f) == { j \in 1..Len(f.lines) : f.lines[j].needsMonospaceFontCheck }

\* C5: one pass validates one line only, a windowed line that needs the check and
\* is at least as wide as every other one that needs it; if it is valid no line is
\* invalidated, if it is not every line of the window is, and if no windowed line
\* needs the check nothing is validated or invalidated
C5_OnlyWidestDirtyLineIsValidated ==
    \A i \in 1..Len(widthCall) :
        LET f == widthCall[i] IN
        IsCheckFrame(f) =>
            IF DirtyLines(f) = {}
            THEN f.validated = <<>> /\ f.invalidated = {}
            ELSE /\ Len(f.validated) = 1
                 /\ LET k == f.validated[1].lineNumber - f.rendStartLineNumber + 1
                    IN  /\ k \in DirtyLines(f)
                        /\ \A j \in DirtyLines(f) : f.lines[j].width <= f.lines[k].width
                 /\ f.validated[1].valid => f.invalidated = {}
                 /\ ~f.validated[1].valid =>
                        f.invalidated = f.rendStartLineNumber..f.rendEndLineNumber

\* the second line is the widest that needs the check and fails it: the first
\* line, narrower and in need of the check, is invalidated with it
C5_Witness ==
    \E i \in 1..Len(widthCall) :
        LET f == widthCall[i] IN
        /\ IsCheckFrame(f)
        /\ f.rendStartLineNumber = 1
        /\ f.rendEndLineNumber = 2
        /\ DirtyLines(f) = {1, 2}
        /\ f.lines[1].width < f.lines[2].width
        /\ f.validated = << [lineNumber |-> 2, valid |-> FALSE] >>
        /\ f.invalidated = {1, 2}

----------------------------------------------------------------------------
\* Claims about the two debounced tasks (TimerSpec)

\* the delays the text gives, in milliseconds
StatedDelay(s) == IF s = "_asyncUpdateLineWidths" THEN 200 ELSE 2000

\* C10: any number of triggers of a task leaves one timeout outstanding, due one
\* full delay (200 ms, 2000 ms) after the latest trigger; when it fires the callback
\* runs once for all of them, and nothing is left outstanding
C10_TriggersAreCoalesced ==
    /\ \A s \in Schedulers :
           /\ pendingTriggers[s] > 0 <=> IsScheduled(s)
           /\ IsScheduled(s) => timeoutRemaining[s] + sinceSchedule[s] = StatedDelay(s)
    /\ \A i \in 1..Len(timerCall) :
           LET f == timerCall[i] IN
           f.op = "onTimeout" =>
           /\ f.triggers >= 1
           /\ f.after = StatedDelay(f.scheduler)
           /\ ~IsScheduled(f.scheduler)
           /\ f.ran =>
                  /\ Len(widthCall) = 1
                  /\ widthCall[1].op =
                         IF f.scheduler = "_asyncUpdateLineWidths"
                         THEN "_updateLineWidthsSlow"
                         ELSE "_checkMonospaceFontAssumptions"

\* three triggers of the recompute, the latest after the first one's delay had run
\* out: one execution, 200 ms after the latest
C10_Witness ==
    \E i \in 1..Len(timerCall) :
        LET f == timerCall[i] IN
        /\ f.op = "onTimeout"
        /\ f.scheduler = "_asyncUpdateLineWidths"
        /\ f.ran
        /\ f.triggers = 3
        /\ f.after = 200
        /\ f.afterFirst > 200
        /\ widthCall # <<>>
        /\ widthCall[1].op = "_updateLineWidthsSlow"

TimeoutFired(s) ==
    /\ timerCall = <<>>
    /\ timerCall' # <<>>
    /\ timerCall'[1].op = "onTimeout"
    /\ timerCall'[1].scheduler = s

C11_Step ==
    /\ (timerCall = <<>> /\ timerCall' # <<>> /\ timerCall'[1].op = "dispose") =>
           \A s \in Schedulers : ~IsScheduled(s)' /\ ~runner'[s]
    /\ \A s \in Schedulers :
           ~runner[s] =>
               /\ ~runner'[s]
               /\ TimeoutFired(s) =>
                      /\ ~timerCall'[1].ran
                      /\ widthCall' = <<>>
                      /\ UNCHANGED widthVars

\* C11: dispose leaves no timeout outstanding and no runner set, whether or not a
\* trigger was pending; a dropped runner stays dropped, and a timeout of a
\* scheduler whose runner is dropped runs neither _updateLineWidthsSlow nor
\* _checkMonospaceFontAssumptions
C11_NoTaskRunsAfterDispose == [][C11_Step]_vars

\* dispose with both tasks pending
C11_Witness ==
    \E i \in 1..Len(timerCall) :
        /\ timerCall[i].op = "dispose"
        /\ timerCall[i].outstanding = Schedulers
        /\ \A s \in Schedulers : ~IsScheduled(s) /\ ~runner[s]

----------------------------------------------------------------------------
\* Claims about getLineWidth (WidthSpec)

\* C12: for a line number outside the window getLineWidth returns -1 and asks no
\* line for its width; for a line number inside the window it asks that line, once,
\* and returns its answer
C12_LineWidthOutsideWindowIsUnknown ==
    \A i \in 1..Len(widthCall) :
        LET f == widthCall[i] IN
        f.op = "getLineWidth" =>
            IF f.lineNumber \in f.rendStartLineNumber..f.rendEndLineNumber
            THEN /\ Len(f.getWidthCalls) = 1
                 /\ f.getWidthCalls[1].lineNumber = f.lineNumber
                 /\ f.result = f.getWidthCalls[1].width
            ELSE /\ f.getWidthCalls = <<>>
                 /\ f.result = Px(-1)

\* the line after the last line of a window that is not empty
C12_Witness ==
    \E i \in 1..Len(widthCall) :
        LET f == widthCall[i] IN
        /\ f.op = "getLineWidth"
        /\ f.rendStartLineNumber <= f.rendEndLineNumber
        /\ f.lineNumber = f.rendEndLineNumber + 1
        /\ f.lineNumber <= lineCount
        /\ f.getWidthCalls = <<>>
        /\ f.result = Px(-1)

----------------------------------------------------------------------------
\* Claims about the scroll command of onRevealRangeRequest (RevealSpec)

\* the distance between the current scroll top and the scroll top of the command
ScrollTopDelta(f) ==
    IF f.currentScrollTop >= f.setScrollPositionCalls[1].scrollTop
    THEN f.currentScrollTop - f.setScrollPositionCalls[1].scrollTop
    ELSE f.setScrollPositionCalls[1].scrollTop - f.currentScrollTop

\* C13: the scroll command is Immediate whenever the current scroll top and the
\* validated new scroll top are at most one line height apart, whatever scrollType
\* the request has, and has the request's scrollType otherwise
C13_SmallDeltaIsImmediate ==
    \A i \in 1..Len(revealCall) :
        LET f == revealCall[i] IN
        f.result =>
            /\ Len(f.setScrollPositionCalls) = 1
            /\ f.setScrollPositionCalls[1].scrollTop =
                   validateScrollPosition(f.desiredScrollTop, f.viewport)
            /\ f.setScrollPositionCalls[1].scrollType =
                   IF ScrollTopDelta(f) <= _lineHeight THEN "Immediate" ELSE f.e.scrollType

\* a Smooth request that moves by exactly one line height
C13_Witness ==
    \E i \in 1..Len(revealCall) :
        LET f == revealCall[i] IN
        /\ f.result
        /\ f.e.scrollType = "Smooth"
        /\ f.currentScrollTop = Px(1220)
        /\ f.setScrollPositionCalls[1].scrollTop = Px(1200)
        /\ f.setScrollPositionCalls[1].scrollType = "Immediate"

MultiLineRange(e) ==
    e.range # <<>> /\ e.range[1].startLineNumber < e.range[1].endLineNumber

\* C14: with revealHorizontal, a range of more than one line gives a scroll command
\* with scrollLeft = 0; a range of one line, a request with selections only, and any
\* request without revealHorizontal give a command without scrollLeft
C14_MultiLineRangeScrollsToLineStart ==
    \A i \in 1..Len(revealCall) :
        LET f == revealCall[i] IN
        f.result =>
            /\ Len(f.setScrollPositionCalls) = 1
            /\ (f.e.revealHorizontal /\ MultiLineRange(f.e))
                   => f.setScrollPositionCalls[1].scrollLeft = <<0>>
            /\ (~f.e.revealHorizontal \/ ~MultiLineRange(f.e))
                   => f.setScrollPositionCalls[1].scrollLeft = <<>>

C14_Witness ==
    \E i \in 1..Len(revealCall) :
        LET f == revealCall[i] IN
        /\ f.result
        /\ f.e.revealHorizontal
        /\ f.e.range = <<LineRange(61, 101)>>
        /\ f.e.selections = <<>>
        /\ f.setScrollPositionCalls[1].scrollLeft = <<0>>

----------------------------------------------------------------------------
\* Claims about the passes of _updateLineWidths, fast ones included (FastSpec)

IsPassFrame(f) == f.op \in UpdateOps \cup {"_updateLineWidths"}

\* the lines of the window the pass did not measure
SkippedLines(f) == { j \in 1..Len(f.lines) : f.fast /\ ~f.lines[j].widthIsFast }

CoversDocument(f) == f.rendStartLineNumber = 1 /\ f.rendEndLineNumber = f.lineCount

AtLeastOnePx(w) == IF w < Px(1) THEN Px(1) ELSE w

\* C15: a pass that does not cover the whole document, or that did not compute some
\* width, does not lower _maxLineWidth; a pass that covers the whole document and
\* computed every width leaves ceil(max(1, the widest line of the window))
C15_PartialPassNeverLowers ==
    \A i \in 1..Len(widthCall) :
        LET f == widthCall[i] IN
        IsPassFrame(f) =>
            /\ (~CoversDocument(f) \/ SkippedLines(f) # {}) => _maxLineWidth >= f.maxBefore
            /\ (CoversDocument(f) /\ SkippedLines(f) = {}) =>
                   _maxLineWidth = CeilPx(AtLeastOnePx(TrueMaxWidth(f.lines)))

\* a fast pass over the whole document that skips a line and finds less than the
\* tracked maximum
C15_Witness ==
    \E i \in 1..Len(widthCall) :
        LET f == widthCall[i] IN
        /\ IsPassFrame(f)
        /\ f.fast
        /\ CoversDocument(f)
        /\ SkippedLines(f) # {}
        /\ CeilPx(f.localMaxLineWidth) < f.maxBefore
        /\ _maxLineWidth = f.maxBefore

\* the widest of the lines a fast pass measured, 1 at least
MeasuredMaxWidth(f) ==
    LET measured == { f.lines[j].width : j \in (1..Len(f.lines)) \ SkippedLines(f) } \cup {Px(1)}
    IN  CHOOSE w \in measured : \A v \in measured : v <= w

\* C16: a fast pass skips exactly the lines whose width is not fast to compute,
\* returns false if and only if it skipped one, and when it returns false the full
\* recompute is scheduled
C16_SkippingPassSchedulesRecompute ==
    \A i \in 1..Len(widthCall) :
        LET f == widthCall[i] IN
        (IsPassFrame(f) /\ f.fast) =>
            /\ f.localMaxLineWidth = MeasuredMaxWidth(f)
            /\ f.result = (SkippedLines(f) = {})
            /\ ~f.result => IsScheduled("_asyncUpdateLineWidths")

----------------------------------------------------------------------------
\* Claims about the padding of the reveal box (RevealSpec)

HasBox(f) == ~NoBox(f.e)

AppliedPaddingTop(f) == f.box.boxStartY - f.paddedBox.boxStartY

AppliedPaddingBottom(f) == f.paddedBox.boxEndY - f.box.boxEndY

ScrollOffIgnored(f) ==
    (f.e.source = "mouse" \/ f.e.minimalReveal) /\ _cursorSurroundingLinesStyle = "default"

\* min(viewportHeight / lineHeight / 2, surroundingLinesSetting) * lineHeight
SurroundingHeight(f) ==
    IF f.viewport.height < 2 * _cursorSurroundingLines * _lineHeight
    THEN f.viewport.height \div 2
    ELSE _cursorSurroundingLines * _lineHeight

SurroundingPaddingTop(f) ==
    IF _stickyScrollEnabled /\ _maxNumberStickyLines * _lineHeight > SurroundingHeight(f)
    THEN _maxNumberStickyLines * _lineHeight
    ELSE SurroundingHeight(f)

\* what Simple and Bottom add below the box
ScrollbarPadding(f) ==
    IF f.e.verticalType \in {"Simple", "Bottom"}
    THEN (IF f.e.minimalReveal THEN _horizontalScrollbarHeight ELSE _lineHeight)
    ELSE 0

C18_IgnoredScrollOff ==
    \A i \in 1..Len(revealCall) :
        LET f == revealCall[i] IN
        HasBox(f) =>
            IF ScrollOffIgnored(f)
            THEN /\ AppliedPaddingTop(f) = (IF f.e.minimalReveal THEN 0 ELSE _lineHeight)
                 /\ AppliedPaddingBottom(f) - ScrollbarPadding(f) = 0
            ELSE /\ AppliedPaddingTop(f) = SurroundingPaddingTop(f)
                 /\ AppliedPaddingBottom(f) - ScrollbarPadding(f) =
                        (IF SurroundingHeight(f) >= _lineHeight
                         THEN SurroundingHeight(f) - _lineHeight ELSE 0)

\* a mouse request with minimalReveal, style default, setting 3: no padding above
C18_Witness ==
    \E i \in 1..Len(revealCall) :
        LET f == revealCall[i] IN
        /\ HasBox(f)
        /\ f.e.source = "mouse"
        /\ f.e.minimalReveal
        /\ _cursorSurroundingLinesStyle = "default"
        /\ _cursorSurroundingLines = 3
        /\ _stickyScrollEnabled
        /\ f.e.verticalType = "Center"
        /\ AppliedPaddingTop(f) = 0
        /\ AppliedPaddingBottom(f) = 0

\* what is added below the box before Simple and Bottom add theirs
BasePaddingBottom(f) ==
    IF ScrollOffIgnored(f) THEN 0
    ELSE IF SurroundingHeight(f) >= _lineHeight THEN SurroundingHeight(f) - _lineHeight
    ELSE 0

\* C19: Simple and Bottom, and no other type, add one line height below the box,
\* or the horizontal scrollbar height with minimalReveal; box 2000-2020, viewport
\* {top 1000, height 500}, Bottom, minimalReveal, scrollbar height 14, style
\* default: the padded box ends at 2034 and the result is 1534
C19_ScrollbarPadding ==
    \A i \in 1..Len(revealCall) :
        LET f == revealCall[i] IN
        HasBox(f) =>
            /\ AppliedPaddingBottom(f) - BasePaddingBottom(f) =
                   (IF f.e.verticalType = "Simple" \/ f.e.verticalType = "Bottom"
                    THEN (IF f.e.minimalReveal THEN _horizontalScrollbarHeight ELSE _lineHeight)
                    ELSE 0)
            /\ (/\ f.box.boxStartY = Px(2000) /\ f.box.boxEndY = Px(2020)
                /\ f.viewport = [top |-> Px(1000), height |-> Px(500)]
                /\ f.e.verticalType = "Bottom" /\ f.e.minimalReveal
                /\ _horizontalScrollbarHeight = Px(14)
                /\ _cursorSurroundingLinesStyle = "default")
                   => /\ f.paddedBox.boxEndY = Px(2034)
                      /\ f.desiredScrollTop = Px(1534)

C19_Witness ==
    \E i \in 1..Len(revealCall) :
        LET f == revealCall[i] IN
        /\ f.e.range = <<LineRange(101, 101)>>
        /\ f.e.selections = <<>>
        /\ f.box.boxStartY = Px(2000)
        /\ f.box.boxEndY = Px(2020)
        /\ f.viewport = [top |-> Px(1000), height |-> Px(500)]
        /\ f.e.verticalType = "Bottom"
        /\ f.e.minimalReveal
        /\ _cursorSurroundingLinesStyle = "default"
        /\ AppliedPaddingBottom(f) = Px(14)
        /\ f.desiredScrollTop = Px(1534)

----------------------------------------------------------------------------
\* Claims about _computeMinimumScrolling (RevealSpec)

\* x | 0 on the model's values: the fraction is dropped
Truncated(x) == IF x >= 0 THEN x - (x % Unit) ELSE x + ((0 - x) % Unit)

NotBelowZero(x) == IF x < 0 THEN 0 ELSE x

\* what the claim gives for truncated bounds vs..ve of the viewport and bs..be of
\* the box
MinimumScrollingAsStated(vs, ve, bs, be, atStart, atEnd) ==
    IF be - bs >= ve - vs THEN bs
    ELSE IF atStart THEN bs
    ELSE IF atEnd THEN NotBelowZero(be - (ve - vs))
    ELSE IF vs <= bs /\ be <= ve THEN vs
    ELSE IF bs < vs THEN bs
    ELSE NotBelowZero(be - (ve - vs))

\* the padded box is not higher than the viewport and the type is Simple, Top or
\* Bottom: line 849 is reached
UsesMinimumScrolling(f) ==
    /\ HasBox(f)
    /\ f.paddedBox.boxEndY - f.paddedBox.boxStartY <= f.viewport.height
    /\ f.e.verticalType \in {"Simple", "Top", "Bottom"}

\* C20: on truncated bounds, a box shorter than the viewport goes to boxStart with
\* Top and to max(0, boxEnd - viewportLength) with Bottom; with neither the
\* viewport stays if the box is inside it, goes to boxStart if the box starts above
\* it and to max(0, boxEnd - viewportLength) if it ends below it; a box as long as
\* the viewport or longer goes to boxStart
C20_MinimumScrolling ==
    \A i \in 1..Len(revealCall) :
        LET f == revealCall[i] IN
        UsesMinimumScrolling(f) =>
            f.desiredScrollTop =
                MinimumScrollingAsStated(
                    Truncated(f.viewport.top),
                    Truncated(f.viewport.top + f.viewport.height),
                    Truncated(f.paddedBox.boxStartY),
                    Truncated(f.paddedBox.boxEndY),
                    f.e.verticalType = "Top",
                    f.e.verticalType = "Bottom")

\* Bottom on a box inside the viewport: the box's end goes to the viewport's end
C20_Witness ==
    \E i \in 1..Len(revealCall) :
        LET f == revealCall[i] IN
        /\ UsesMinimumScrolling(f)
        /\ f.e.verticalType = "Bottom"
        /\ f.viewport = [top |-> Px(1000), height |-> Px(500)]
        /\ f.viewport.top <= f.paddedBox.boxStartY
        /\ f.paddedBox.boxEndY < f.viewport.top + f.viewport.height
        /\ f.desiredScrollTop = f.paddedBox.boxEndY - f.viewport.height
        /\ f.desiredScrollTop # f.viewport.top

WholePx(x) == x % Unit = 0

\* the result of _computeMinimumScrolling for the request of the frame with the
\* viewport moved to top
MinimumScrollingFrom(f, top) ==
    _computeMinimumScrolling(top, top + f.viewport.height,
                             f.paddedBox.boxStartY, f.paddedBox.boxEndY,
                             f.e.verticalType = "Top", f.e.verticalType = "Bottom")

\* C21 as stated: for Simple, Top and Bottom, with the viewport moved to the result
\* r (same height, same box, bounds that may have a fraction),
\* _computeMinimumScrolling returns r again
C21_MinimumScrollingIsStable ==
    \A i \in 1..Len(revealCall) :
        LET f == revealCall[i] IN
        UsesMinimumScrolling(f) =>
            MinimumScrollingFrom(f, f.desiredScrollTop) = f.desiredScrollTop

\* C21 as amended: it returns r again when the viewport's top and height are whole
\* pixels, whatever fraction the box's bounds have
C21_StableFromWholePixelViewport ==
    \A i \in 1..Len(revealCall) :
        LET f == revealCall[i] IN
        (UsesMinimumScrolling(f) /\ WholePx(f.viewport.top) /\ WholePx(f.viewport.height)) =>
            /\ WholePx(f.desiredScrollTop)
            /\ MinimumScrollingFrom(f, f.desiredScrollTop) = f.desiredScrollTop

\* Top on a box whose bounds have a fraction and that is shorter than the viewport
\* once they are truncated: the result is the truncated top, and it is stable
C21_Witness ==
    \E i \in 1..Len(revealCall) :
        LET f == revealCall[i] IN
        /\ UsesMinimumScrolling(f)
        /\ WholePx(f.viewport.top)
        /\ WholePx(f.viewport.height)
        /\ f.e.verticalType = "Top"
        /\ ~WholePx(f.paddedBox.boxStartY)
        /\ Truncated(f.paddedBox.boxEndY) - Truncated(f.paddedBox.boxStartY) < f.viewport.height
        /\ f.desiredScrollTop = Truncated(f.paddedBox.boxStartY)
        /\ f.desiredScrollTop # f.viewport.top

\* the padded box of the frame is no higher than the viewport
BoxFitsViewport(f) ==
    HasBox(f) /\ f.paddedBox.boxEndY - f.paddedBox.boxStartY <= f.viewport.height

PlacesNearTop(f) ==
    /\ BoxFitsViewport(f)
    /\ \/ f.e.verticalType = "NearTop"
       \/ f.e.verticalType = "NearTopIfOutsideViewport" /\ ~BoxInsideViewport(f)

\* five times the gap wanted above the box: max(5 * lineHeight, 0.2 * viewportHeight)
FiveGaps(f) == MathMax(25 * _lineHeight, f.viewport.height)

\* C22: NearTop, and NearTopIfOutsideViewport when the box is not inside the viewport,
\* with a padded box no higher than the viewport, compute
\* max(boxBottom - viewportHeight, boxTop - max(5 * lineHeight, 0.2 * viewportHeight)),
\* and the box lies inside the new viewport: result <= boxTop and
\* boxBottom <= result + viewportHeight
C22_NearTop ==
    \A i \in 1..Len(revealCall) :
        LET f == revealCall[i]
            r == f.desiredScrollTop
            boxTop == f.paddedBox.boxStartY
            boxBottom == f.paddedBox.boxEndY
        IN  PlacesNearTop(f) =>
                /\ r >= boxBottom - f.viewport.height
                /\ 5 * r >= 5 * boxTop - FiveGaps(f)
                /\ r = boxBottom - f.viewport.height \/ 5 * r = 5 * boxTop - FiveGaps(f)
                /\ r <= boxTop
                /\ boxBottom <= r + f.viewport.height

\* viewport height 600, line height 20: the gap is 120, above five lines (100), and
\* the box 1200-1220 is placed at 1080
C22_Witness ==
    \E i \in 1..Len(revealCall) :
        LET f == revealCall[i] IN
        /\ PlacesNearTop(f)
        /\ f.viewport.height = Px(600)
        /\ 5 * _lineHeight < f.viewport.height \div 5
        /\ f.paddedBox.boxStartY = Px(1200)
        /\ f.paddedBox.boxEndY = Px(1220)
        /\ f.desiredScrollTop = Px(1080)

PlacesAtCenter(f) ==
    /\ BoxFitsViewport(f)
    /\ \/ f.e.verticalType = "Center"
       \/ f.e.verticalType = "CenterIfOutsideViewport" /\ ~BoxInsideViewport(f)

\* C23: Center, and CenterIfOutsideViewport when the box is not inside the viewport,
\* with a padded box no higher than the viewport, compute
\* max(0, (boxTop + boxBottom) / 2 - viewportHeight / 2): never negative, and when
\* positive the middle of the box is the middle of the new viewport
C23_Center ==
    \A i \in 1..Len(revealCall) :
        LET f == revealCall[i]
            r == f.desiredScrollTop
            boxTop == f.paddedBox.boxStartY
            boxBottom == f.paddedBox.boxEndY
        IN  PlacesAtCenter(f) =>
                /\ r >= 0
                /\ 2 * r >= boxTop + boxBottom - f.viewport.height
                /\ r > 0 => 2 * r + f.viewport.height = boxTop + boxBottom
                /\ r = 0 => boxTop + boxBottom <= f.viewport.height

\* both cases in one viewport height: the first line is held at 0, line 61 is centred
C23_Witness ==
    \E i \in 1..Len(revealCall) :
        LET f == revealCall[i] IN
        /\ PlacesAtCenter(f)
        /\ f.e.verticalType = "Center"
        /\ f.viewport.height = Px(500)
        /\ f.paddedBox.boxStartY = Px(1200)
        /\ f.paddedBox.boxEndY = Px(1220)
        /\ f.desiredScrollTop = Px(960)

\* the first line in a viewport of height 500: its middle, 10, is above the middle of
\* every viewport, and the result is held at 0
C23_WitnessAtZero ==
    \E i \in 1..Len(revealCall) :
        LET f == revealCall[i] IN
        /\ PlacesAtCenter(f)
        /\ f.viewport.height = Px(500)
        /\ f.paddedBox.boxStartY = 0
        /\ f.paddedBox.boxEndY = Px(20)
        /\ f.desiredScrollTop = 0

\* the first line of the selections: the start of one of them, and none starts above
IsFirstLine(list, m) ==
    /\ \E k \in 1..Len(list) : list[k].startLineNumber = m
    /\ \A k \in 1..Len(list) : m <= list[k].startLineNumber

\* the last line of the selections: the end of one of them, and none ends below
IsLastLine(list, m) ==
    /\ \E k \in 1..Len(list) : list[k].endLineNumber = m
    /\ \A k \in 1..Len(list) : m >= list[k].endLineNumber

\* C24: a non-empty selections list alone makes the box, e.range being ignored: from
\* the offset of the smallest start line to the offset of the largest end line plus
\* the line height, in whatever order the selections come; e.range makes the box only
\* when selections is null or empty
C24_BoxConstruction ==
    \A i \in 1..Len(revealCall) :
        LET f == revealCall[i] IN
        /\ FromSelections(f.e) =>
               \E first \in { f.e.selections[1][k].startLineNumber : k \in 1..Len(f.e.selections[1]) },
                  last \in { f.e.selections[1][k].endLineNumber : k \in 1..Len(f.e.selections[1]) } :
                   /\ IsFirstLine(f.e.selections[1], first)
                   /\ IsLastLine(f.e.selections[1], last)
                   /\ f.box.valid
                   /\ f.box.boxStartY = getVerticalOffsetForLineNumber(first)
                   /\ f.box.boxEndY = getVerticalOffsetForLineNumber(last) + _lineHeight
        /\ FromRangeOnly(f.e) =>
               /\ f.box.valid
               /\ f.box.boxStartY = getVerticalOffsetForLineNumber(f.e.range[1].startLineNumber)
               /\ f.box.boxEndY
                      = getVerticalOffsetForLineNumber(f.e.range[1].endLineNumber) + _lineHeight

\* selections 101-101 and 61-62, in this order, with a range on the first line: the box
\* is 1200-2020, from the second selection's start to the first one's end
C24_Witness ==
    \E i \in 1..Len(revealCall) :
        LET f == revealCall[i] IN
        /\ f.e.selections = << <<LineRange(101, 101), LineRange(61, 62)>> >>
        /\ f.e.range = <<LineRange(1, 1)>>
        /\ f.box.boxStartY = Px(1200)
        /\ f.box.boxEndY = Px(2020)

SingleSelection(e) == FromSelections(e) /\ Len(e.selections[1]) = 1

\* what the same request computes with the lines of its one selection given as
\* e.range and selections null
SameLinesAsRange(f) ==
    _computeScrollTopToRevealRange(f.viewport, f.e.source, f.e.minimalReveal,
                                   <<f.e.selections[1][1]>>, <<>>, f.e.verticalType)

\* C25: a request with exactly one selection is a multi-selection request: when its
\* padded box is higher than the viewport it computes -1, whereas the same lines given
\* as range with selections null compute the padded box's top
C25_SingleSelectionOverflow ==
    \A i \in 1..Len(revealCall) :
        LET f == revealCall[i] IN
        (SingleSelection(f.e) /\ BoxOverflowsViewport(f)) =>
            /\ ~f.box.boxIsSingleRange
            /\ f.desiredScrollTop = Px(-1)
            /\ ~f.result
            /\ SameLinesAsRange(f) = f.paddedBox.boxStartY
            /\ SameLinesAsRange(f) # Px(-1)

\* the selection 61-62, 40 high, in a viewport of height 21: aborted, while the range
\* 61-62 would scroll to 1200
C25_Witness ==
    \E i \in 1..Len(revealCall) :
        LET f == revealCall[i] IN
        /\ f.e.selections = << <<LineRange(61, 62)>> >>
        /\ f.e.range = <<>>
        /\ f.viewport.height = Px(21)
        /\ BoxOverflowsViewport(f)
        /\ f.desiredScrollTop = Px(-1)
        /\ f.paddedBox.boxStartY = Px(1200)
        /\ SameLinesAsRange(f) = Px(1200)

\* the step of one width operation: the frame it leaves
WidthStepOf(op) == widthCall = <<>> /\ widthCall' # <<>> /\ widthCall'[1].op = op

\* C26: after the width operations the host has the width _maxLineWidth, except after
\* onFlushed, which sets _maxLineWidth to 0 and sends nothing: the host keeps the width
\* it had until the next pass raises _maxLineWidth or onZonesChanged sends it;
\* onZonesChanged sends the current _maxLineWidth and leaves it as it is
C26_Step ==
    /\ lastWidthOp' \notin {"constructor", "onFlushed"}
           => viewLayoutMaxLineWidth' = _maxLineWidth'
    /\ WidthStepOf("onFlushed") =>
           /\ _maxLineWidth' = 0
           /\ widthCall'[1].setMaxLineWidthCalls = <<>>
           /\ viewLayoutMaxLineWidth' = viewLayoutMaxLineWidth
    /\ (lastWidthOp = "onFlushed" /\ lastWidthOp' = "onFlushed")
           => viewLayoutMaxLineWidth' = viewLayoutMaxLineWidth
    /\ (lastWidthOp = "onFlushed" /\ \E op \in UpdateOps : WidthStepOf(op)) =>
           /\ _maxLineWidth' > _maxLineWidth
           /\ widthCall'[1].setMaxLineWidthCalls = <<_maxLineWidth'>>
    /\ WidthStepOf("onZonesChanged") =>
           /\ _maxLineWidth' = _maxLineWidth
           /\ widthCall'[1].setMaxLineWidthCalls = <<_maxLineWidth>>
           /\ viewLayoutMaxLineWidth' = _maxLineWidth

C26_HostHasMaxLineWidthExceptAfterFlush == [][C26_Step]_vars

\* after a flush the host still has the width 842 of the pass before it, and
\* _maxLineWidth is 0
C26_Witness ==
    /\ lastWidthOp = "onFlushed"
    /\ _maxLineWidth = 0
    /\ viewLayoutMaxLineWidth = Px(842)

\* onZonesChanged after a flush has sent the 0 to the host
C26_WitnessZones ==
    /\ lastWidthOp = "onZonesChanged"
    /\ widthCall # <<>>
    /\ widthCall[1].previousOp = "onFlushed"
    /\ _maxLineWidth = 0
    /\ viewLayoutMaxLineWidth = 0

====
